---- MODULE Spec2Model ----
(***************************************************************************)
(* A model of the streaming client of kiteconnect/ticker.py: KiteTicker,   *)
(* its KiteTickerClientFactory (a twisted ReconnectingClientFactory) and   *)
(* its KiteTickerClientProtocol (an autobahn WebSocketClientProtocol).     *)
(*                                                                         *)
(* One action is one handler run to completion on the reactor: the twisted *)
(* reactor runs one callback at a time.  Times are in milliseconds.        *)
(* The host application is modelled as the environment: it calls the       *)
(* public API, and its on_close / on_error callbacks either return or      *)
(* raise.  It calls connect() only when the previous connector is idle,    *)
(* except in SpecTwoConnects; it calls from the reactor thread, except in  *)
(* SpecThreaded.                                                           *)
(***************************************************************************)
EXTENDS Integers, Sequences, FiniteSets, TLC

\* ------------------------------------------------------------- bounds
\* largest reconnect_max_tries the host passes to the constructor
MaxTriesCfg == 3
\* longest instrument_tokens list passed to subscribe/unsubscribe/set_mode
MaxListLen == 2

\* most connections a host leaves behind by calling connect() over a live one
MaxOrphans == 1

\* ---------------------------------------------------- program constants
\* KiteTickerClientProtocol.PING_INTERVAL = 2.5 (seconds), in milliseconds
PING_INTERVAL == 2500
\* KiteTicker._minimum_reconnect_max_delay = 5 (seconds), in milliseconds
MinimumReconnectMaxDelay == 5000
\* KiteTicker._maximum_reconnect_max_tries
MaximumReconnectMaxTries == 300
\* ReconnectingClientFactory.initialDelay = 1.0 (seconds), in milliseconds
InitialDelay == 1000
\* ReconnectingClientFactory.factor = e = 2.718..., in thousandths
FactorMilli == 2718
\* ReconnectingClientFactory.jitter = 0.1196..., in ten-thousandths
JitterTenThousandths == 1196

\* the instrument tokens the host uses
Tokens == {1, 2}
Modes == {"full", "quote", "ltp"}
\* class Mode
ModeQUOTE == "quote"

\* the reconnect_max_delay values the host passes (ms): one below the floor,
\* one above e^2 seconds so that the cap is reached on the third retry
DelayCfgs == {3000, 8000}

\* reconnect_max_tries / reconnect_max_delay values around the limits of
\* __init__, for a host that passes out-of-range values
TriesArgs == {0, 2, MaximumReconnectMaxTries - 1, MaximumReconnectMaxTries,
              MaximumReconnectMaxTries + 1, MaximumReconnectMaxTries + 200}
DelayArgs == {0, MinimumReconnectMaxDelay - 1, MinimumReconnectMaxDelay,
              MinimumReconnectMaxDelay + 1, 60000}

\* the instrument_tokens lists the host passes
RECURSIVE SeqsUpTo(_)
SeqsUpTo(n) ==
    IF n = 0 THEN {<<>>}
    ELSE LET shorter == SeqsUpTo(n - 1)
         IN  shorter \cup {Append(s, t) : s \in {x \in shorter : Len(x) = n - 1}, t \in Tokens}
TokenLists == SeqsUpTo(MaxListLen)

Min(a, b) == IF a < b THEN a ELSE b

VARIABLES
    \* the arguments the host passed to KiteTicker.__init__
    tries_arg,             \* reconnect_max_tries
    delay_arg,             \* reconnect_max_delay, ms
    reconnect,             \* reconnect
    \* KiteTicker
    reconnect_max_tries,   \* self.reconnect_max_tries (after clamping)
    reconnect_max_delay,   \* self.reconnect_max_delay (after clamping), ms
    debug,                 \* self.debug
    \* the platform the client runs on
    localtime_strict,      \* its localtime rejects the epochs of the first day
    hasFactory,            \* self.factory exists (set by connect())
    ws,                    \* self.ws: "none", "cur" (protocol of the live connection), "old" (a closed one)
                           \* or "orphan" (an open protocol of an orphaned connection)
    is_first_connect,      \* self._is_first_connect
    subscribed_tokens,     \* self.subscribed_tokens: an insertion-ordered dict, as a sequence of [token, mode]
    \* KiteTickerClientFactory (ReconnectingClientFactory)
    factory,               \* [retries, delay, continueTrying, callID]
    connector,             \* twisted connector: "disconnected", "connecting", "connected"
    \* KiteTickerClientProtocol of the most recent connection
    proto,                 \* "none", "handshake", "open", "closing", "dropped", "closed"
    next_ping,             \* self._next_ping is a pending delayed call
    next_pong_check,       \* self._next_pong_check is a pending delayed call
    last_pong_age,         \* now - self._last_pong_time, -1 when _last_pong_time is None
    ghost,                 \* an earlier, closed protocol still has a pending keepalive call
    \* what the last handler did
    last,                  \* name of the last handler
    events,                \* host callbacks it invoked, in order
    sent,                  \* control commands it handed to the socket, in order
    raised,                \* it ended by raising
    args,                  \* the (mode, instrument_tokens) it was called with
    payload,               \* the inbound message it was given
    ticks,                 \* the ticks it decoded from the payload
    \* history of the current failure run
    autoAttempts,          \* automatic reconnect attempts started since the last connect()/onConnect
    noreconnects,          \* on_noreconnect invocations since the last connect()/onConnect
    closeRequested,        \* close() returned since the last connect()
    everOpened,            \* some connection of this client has reached Open
    \* what exists only when the host connects again over a live connection,
    \* or calls from a thread other than the reactor's
    orphans,               \* live connections, attempts or pending retries of factories replaced by connect()
    replayTodo,            \* the calls resubscribe() has still to make, while _on_open is running
    replayFrom             \* the registry as it was when that resubscribe() began

vars == <<tries_arg, delay_arg, reconnect, reconnect_max_tries, reconnect_max_delay, debug,
          localtime_strict, hasFactory, ws, is_first_connect,
          subscribed_tokens, factory, connector, proto, next_ping, next_pong_check,
          last_pong_age, ghost, last, events, sent, raised, args, payload, ticks,
          autoAttempts, noreconnects,
          closeRequested, everOpened, orphans, replayTodo, replayFrom>>

cfgVars == <<tries_arg, delay_arg, reconnect, reconnect_max_tries, reconnect_max_delay, debug,
             localtime_strict>>
hostVars == <<orphans, replayTodo, replayFrom>>
tickerVars == <<hasFactory, ws, is_first_connect, subscribed_tokens>>
protoVars == <<proto, next_ping, next_pong_check, last_pong_age, ghost>>
histVars == <<autoAttempts, noreconnects, closeRequested, everOpened>>

\* a host callback invoked with a code or count (arg) and, for the callbacks
\* of text messages, with the message's data
NoData == ""
EvData(cb, arg, data) == [cb |-> cb, arg |-> arg, data |-> data]
Ev(cb, arg) == EvData(cb, arg, NoData)
Cmd(a, mode, v) == [a |-> a, mode |-> mode, v |-> v]
Args(mode, v) == [mode |-> mode, v |-> v]
NoArgs == Args("", <<>>)
\* an inbound message: a text message by what _parse_text_message tests (what
\* json.loads makes of it, and the "type" and "data" of a JSON object), a
\* binary message by its bytes, together with the packets the server framed,
\* the number of packets it counted beyond them and of bytes lost at the end
TextMessage(json, type, data) ==
    [binary |-> FALSE, bytes |-> <<>>, packets |-> <<>>, missing |-> 0, cut |-> 0,
     json |-> json, type |-> type, data |-> data]
NoPayload == TextMessage("", "", "")
\* the handler was not given a message
NoMessage == payload' = NoPayload /\ ticks' = <<>>

\* ------------------------------------------------- KiteTicker.__init__
\* a faulty variant of ClampTries: the ceiling is not applied
ClampTriesUnbounded(n) == n

ClampTries(n) ==
    IF n > MaximumReconnectMaxTries THEN MaximumReconnectMaxTries ELSE n

ClampDelay(d) ==
    IF d < MinimumReconnectMaxDelay THEN MinimumReconnectMaxDelay ELSE d

NewFactory == [retries |-> 0, delay |-> InitialDelay, continueTrying |-> TRUE, callID |-> FALSE]

\* the state after KiteTicker(...), whatever the arguments
Constructed ==
    /\ reconnect_max_tries = ClampTries(tries_arg)
    /\ reconnect_max_delay = ClampDelay(delay_arg)
    /\ hasFactory = FALSE
    /\ ws = "none"
    /\ is_first_connect = TRUE
    /\ subscribed_tokens = <<>>
    /\ factory = NewFactory
    /\ connector = "disconnected"
    /\ proto = "none"
    /\ next_ping = FALSE
    /\ next_pong_check = FALSE
    /\ last_pong_age = -1
    /\ ghost = FALSE
    /\ last = "init"
    /\ events = <<>>
    /\ sent = <<>>
    /\ raised = FALSE
    /\ args = NoArgs
    /\ ticks = <<>>
    /\ autoAttempts = 0
    /\ noreconnects = 0
    /\ closeRequested = FALSE
    /\ everOpened = FALSE
    /\ orphans = 0
    /\ replayTodo = <<>>
    /\ replayFrom = <<>>

Init ==
    /\ tries_arg \in 0..MaxTriesCfg
    /\ delay_arg \in DelayCfgs
    /\ reconnect \in BOOLEAN
    /\ debug \in BOOLEAN
    /\ localtime_strict = FALSE
    /\ payload = NoPayload
    /\ Constructed

\* ------------------------------------- the registry (a python dict)
Entry(t, m) == [token |-> t, mode |-> m]

Has(reg, t) == \E i \in DOMAIN reg : reg[i].token = t

ModeOf(reg, t) == (CHOOSE e \in {reg[i] : i \in DOMAIN reg} : e.token = t).mode

\* a faulty variant of SetItem: a token that is not registered is ignored
SetItemIfPresent(reg, t, m) ==
    IF Has(reg, t)
    THEN [i \in DOMAIN reg |-> IF reg[i].token = t THEN Entry(t, m) ELSE reg[i]]
    ELSE reg

\* reg[t] = m: an existing key keeps its place, a new key goes last
SetItem(reg, t, m) ==
    IF Has(reg, t)
    THEN [i \in DOMAIN reg |-> IF reg[i].token = t THEN Entry(t, m) ELSE reg[i]]
    ELSE Append(reg, Entry(t, m))

\* del reg[t], KeyError ignored
DelItem(reg, t) == SelectSeq(reg, LAMBDA e : e.token # t)

RECURSIVE SetAll(_, _, _)
SetAll(reg, tokens, m) ==
    IF tokens = <<>> THEN reg
    ELSE SetAll(SetItem(reg, Head(tokens), m), Tail(tokens), m)

\* a faulty variant of DelAll: the loop stops after the first token
DelAllFirstOnly(reg, tokens) ==
    IF tokens = <<>> THEN reg ELSE DelItem(reg, Head(tokens))

RECURSIVE DelAll(_, _)
DelAll(reg, tokens) ==
    IF tokens = <<>> THEN reg
    ELSE DelAll(DelItem(reg, Head(tokens)), Tail(tokens))

\* ---------------------- KiteTicker.subscribe / unsubscribe / set_mode
\* The three share one shape: assert self.ws, ws.sendMessage(...), update the
\* registry, return True; any exception is re-raised after self._close(reason=...).
\* canSend: self.ws is a protocol in STATE_OPEN (sendMessage raises otherwise).
Outcome(reg, cmds, exc) == [reg |-> reg, sent |-> cmds, raised |-> exc]

\* a faulty variant of subscribe: the registry is written before the send
subscribeRegistersFirst(reg, tokens, canSend) ==
    IF canSend
    THEN Outcome(SetAll(reg, tokens, ModeQUOTE), <<Cmd("subscribe", "", tokens)>>, FALSE)
    ELSE Outcome(SetAll(reg, tokens, ModeQUOTE), <<>>, TRUE)

subscribe(reg, tokens, canSend) ==
    IF canSend
    THEN Outcome(SetAll(reg, tokens, ModeQUOTE), <<Cmd("subscribe", "", tokens)>>, FALSE)
    ELSE Outcome(reg, <<>>, TRUE)

unsubscribe(reg, tokens, canSend) ==
    IF canSend
    THEN Outcome(DelAll(reg, tokens), <<Cmd("unsubscribe", "", tokens)>>, FALSE)
    ELSE Outcome(reg, <<>>, TRUE)

set_mode(reg, mode, tokens, canSend) ==
    IF canSend
    THEN Outcome(SetAll(reg, tokens, mode), <<Cmd("mode", mode, tokens)>>, FALSE)
    ELSE Outcome(reg, <<>>, TRUE)

\* ----------------------------------------------- KiteTicker.resubscribe
\* modes = {}: mode -> list of tokens, in order of first occurrence
AddToGroup(groups, m, t) ==
    IF \E i \in DOMAIN groups : groups[i].mode = m
    THEN [i \in DOMAIN groups |->
            IF groups[i].mode = m
            THEN [mode |-> m, tokens |-> Append(groups[i].tokens, t)]
            ELSE groups[i]]
    ELSE Append(groups, [mode |-> m, tokens |-> <<t>>])

RECURSIVE ModeGroupsFrom(_, _)
ModeGroupsFrom(reg, groups) ==
    IF reg = <<>> THEN groups
    ELSE ModeGroupsFrom(Tail(reg), AddToGroup(groups, Head(reg).mode, Head(reg).token))

ModeGroups(reg) == ModeGroupsFrom(reg, <<>>)

\* for mode in modes: self.subscribe(modes[mode]); self.set_mode(mode, modes[mode])
RECURSIVE Replay(_, _, _, _)
Replay(groups, reg, cmds, canSend) ==
    IF groups = <<>> THEN Outcome(reg, cmds, FALSE)
    ELSE LET g == Head(groups)
             s == subscribe(reg, g.tokens, canSend)
             m == set_mode(s.reg, g.mode, g.tokens, canSend)
         IN  IF s.raised THEN Outcome(s.reg, cmds, TRUE)
             ELSE IF m.raised THEN Outcome(m.reg, cmds \o s.sent, TRUE)
             ELSE Replay(Tail(groups), m.reg, cmds \o s.sent \o m.sent, canSend)

\* a faulty variant of resubscribe: one subscribe of every token, the modes forgotten
resubscribeSubscribeOnly(reg, canSend) ==
    IF reg = <<>> THEN Outcome(reg, <<>>, FALSE)
    ELSE subscribe(reg, [i \in DOMAIN reg |-> reg[i].token], canSend)

\* for mode in modes: self.set_mode(mode, modes[mode])
RECURSIVE ReplayModes(_, _, _, _)
ReplayModes(groups, reg, cmds, canSend) ==
    IF groups = <<>> THEN Outcome(reg, cmds, FALSE)
    ELSE LET m == set_mode(reg, Head(groups).mode, Head(groups).tokens, canSend)
         IN  IF m.raised THEN Outcome(m.reg, cmds, TRUE)
             ELSE ReplayModes(Tail(groups), m.reg, cmds \o m.sent, canSend)

\* a faulty variant of resubscribe: every token in one subscribe command
\* first, then one set-mode command per mode
resubscribeAllThenModes(reg, canSend) ==
    IF reg = <<>> THEN Outcome(reg, <<>>, FALSE)
    ELSE LET s == subscribe(reg, [i \in DOMAIN reg |-> reg[i].token], canSend)
         IN  IF s.raised THEN s
             ELSE ReplayModes(ModeGroups(reg), s.reg, s.sent, canSend)

resubscribe(reg, canSend) == Replay(ModeGroups(reg), reg, <<>>, canSend)

\* ------------------------- ReconnectingClientFactory (twisted), as used
\* self.factory.maxRetries / maxDelay, set in _create_connection
maxRetries == reconnect_max_tries
maxDelay == reconnect_max_delay

\* random.normalvariate(d, d * jitter): the mean or one deviation either side
Jittered(d, dev) == d + dev * ((d * JitterTenThousandths) \div 10000)

\* retry(connector): does nothing once stopTrying() was called; counts the
\* retry; abandons beyond maxRetries; else schedules connector.connect()
retry(f, dev) ==
    IF ~f.continueTrying THEN f
    ELSE LET r == f.retries + 1
         IN  IF r > maxRetries THEN [f EXCEPT !.retries = r]
             ELSE [f EXCEPT !.retries = r,
                            !.delay = Jittered(Min((f.delay * FactorMilli) \div 1000, maxDelay), dev),
                            !.callID = TRUE]

\* a faulty variant of resetDelay: the retry counter is not reset
resetDelayKeepsRetries(f) ==
    [f EXCEPT !.delay = InitialDelay, !.callID = FALSE, !.continueTrying = TRUE]

resetDelay(f) ==
    [f EXCEPT !.delay = InitialDelay, !.retries = 0, !.callID = FALSE, !.continueTrying = TRUE]

\* self.connector is never set (the overridden handlers do not call the base
\* class), so stopTrying() cancels the pending call and clears the flag only
stopTrying(f) == [f EXCEPT !.callID = FALSE, !.continueTrying = FALSE]

\* ------------------------------------------ KiteTickerClientFactory
\* if self.retries > 0: self.on_reconnect(self.retries)
ReconnectEvents(f) ==
    IF f.retries > 0 THEN <<Ev("on_reconnect", f.retries)>> ELSE <<>>

\* send_noreconnect: with debug set, self.stop() is looked up on the factory,
\* which has no such attribute, and raises before on_noreconnect is reached
send_noreconnect(f) ==
    IF f.retries > maxRetries
    THEN IF debug THEN [events |-> <<>>, raised |-> TRUE]
         ELSE [events |-> <<Ev("on_noreconnect", 0)>>, raised |-> FALSE]
    ELSE [events |-> <<>>, raised |-> FALSE]

NoreconnectCount(evs) == Cardinality({i \in DOMAIN evs : evs[i].cb = "on_noreconnect"})

\* the shared body of clientConnectionFailed and clientConnectionLost:
\* announce the retry, retry(connector), send_noreconnect()
\* (primes factory, events, raised, noreconnects)
ConnectionEnded(before, dev) ==
    LET f == retry(factory, dev)
        n == send_noreconnect(f)
    IN  /\ factory' = f
        /\ events' = before \o ReconnectEvents(factory) \o n.events
        /\ raised' = n.raised
        /\ noreconnects' = noreconnects + NoreconnectCount(n.events)

\* ------------------------------------------------------- KiteTicker.connect
\* _create_connection builds a new factory and aliases self.ws to its ws
\* (None); connectWS starts the connector.
\* a faulty variant of Connect: the new connection starts from an empty registry
ConnectClearsRegistry ==
    /\ connector = "disconnected"
    /\ ~factory.callID
    /\ hasFactory' = TRUE
    /\ factory' = NewFactory
    /\ ws' = "none"
    /\ subscribed_tokens' = <<>>
    /\ connector' = "connecting"
    /\ args' = NoArgs
    /\ NoMessage
    /\ last' = "connect"
    /\ events' = <<>>
    /\ sent' = <<>>
    /\ raised' = FALSE
    /\ autoAttempts' = 0
    /\ noreconnects' = 0
    /\ closeRequested' = FALSE
    /\ UNCHANGED <<cfgVars, hostVars, is_first_connect, protoVars, everOpened>>

Connect ==
    /\ connector = "disconnected"
    /\ ~factory.callID
    /\ hasFactory' = TRUE
    /\ factory' = NewFactory
    /\ ws' = "none"
    /\ connector' = "connecting"
    /\ args' = NoArgs
    /\ NoMessage
    /\ last' = "connect"
    /\ events' = <<>>
    /\ sent' = <<>>
    /\ raised' = FALSE
    /\ autoAttempts' = 0
    /\ noreconnects' = 0
    /\ closeRequested' = FALSE
    /\ UNCHANGED <<cfgVars, hostVars, is_first_connect, subscribed_tokens, protoVars, everOpened>>

\* --------------------- KiteTickerClientFactory.clientConnectionFailed
\* the TCP/TLS connect failed or timed out
ClientConnectionFailed ==
    /\ connector = "connecting"
    /\ connector' = "disconnected"
    /\ \E dev \in {-1, 0, 1} : ConnectionEnded(<<>>, dev)
    /\ args' = NoArgs
    /\ NoMessage
    /\ last' = "connection_failed"
    /\ sent' = <<>>
    /\ UNCHANGED <<cfgVars, hostVars, tickerVars, protoVars, autoAttempts, closeRequested, everOpened>>

\* the TCP/TLS connect succeeded: a new protocol instance starts the
\* WebSocket opening handshake (autobahn STATE_CONNECTING)
TcpConnected ==
    /\ connector = "connecting"
    /\ connector' = "connected"
    /\ proto' = "handshake"
    /\ ws' = IF ws = "cur" THEN "old" ELSE ws
    /\ ghost' = (ghost \/ next_ping \/ next_pong_check)
    /\ next_ping' = FALSE
    /\ next_pong_check' = FALSE
    /\ last_pong_age' = -1
    /\ args' = NoArgs
    /\ NoMessage
    /\ last' = "tcp_connected"
    /\ events' = <<>>
    /\ sent' = <<>>
    /\ raised' = FALSE
    /\ UNCHANGED <<cfgVars, hostVars, hasFactory, is_first_connect, subscribed_tokens, factory, histVars>>

\* ------------- KiteTickerClientProtocol.onConnect, then onOpen
\* autobahn calls both when the server's handshake response is accepted.
\* onConnect: factory.ws = self, _on_connect (self.ws = ws, on_connect),
\* resetDelay().  onOpen: _loop_ping, _loop_pong_check, _on_open.
OnConnectOnOpen ==
    /\ connector = "connected"
    /\ proto = "handshake"
    /\ LET r == IF is_first_connect THEN Outcome(subscribed_tokens, <<>>, FALSE)
                ELSE resubscribe(subscribed_tokens, TRUE)
       IN  /\ subscribed_tokens' = r.reg
           /\ sent' = r.sent
           /\ raised' = r.raised
           /\ is_first_connect' = IF r.raised THEN is_first_connect ELSE FALSE
           /\ events' = <<Ev("on_connect", 0)>> \o
                        (IF r.raised THEN <<>> ELSE <<Ev("on_open", 0)>>)
    /\ ws' = "cur"
    /\ factory' = resetDelay(factory)
    /\ proto' = "open"
    /\ next_ping' = TRUE
    /\ next_pong_check' = TRUE
    /\ args' = NoArgs
    /\ NoMessage
    /\ last' = "open"
    /\ autoAttempts' = 0
    /\ noreconnects' = 0
    /\ everOpened' = TRUE
    /\ UNCHANGED <<cfgVars, hostVars, hasFactory, connector, last_pong_age, ghost, closeRequested>>

\* ------ KiteTickerClientProtocol.onClose, then clientConnectionLost
\* the code autobahn hands to onClose when the connection was not closed
\* cleanly, which onClose passes on to on_error
CLOSE_STATUS_CODE_ABNORMAL_CLOSE == 1006

\* The transport is gone.  wasClean: the closing handshake had completed.
\* onClose calls the host's on_error (unclean only) and on_close before it
\* cancels the timers; if one of them raises, the rest of onClose is skipped
\* and twisted does not reach connector.connectionLost.
ConnectionLost ==
    /\ connector = "connected"
    /\ connector' = "disconnected"
    /\ proto' = "closed"
    /\ \E wasClean \in BOOLEAN, hostRaises \in {"none", "on_error", "on_close"} :
        /\ wasClean => (proto \in {"open", "closing"} /\ hostRaises # "on_error")
        /\ LET errorEvents == IF wasClean THEN <<>> ELSE <<Ev("on_error", CLOSE_STATUS_CODE_ABNORMAL_CLOSE)>>
               closeEvents == errorEvents \o <<Ev("on_close", 0)>>
           IN  IF hostRaises # "none"
               THEN /\ events' = IF hostRaises = "on_error" THEN errorEvents ELSE closeEvents
                    /\ raised' = TRUE
                    /\ UNCHANGED <<factory, noreconnects, next_ping, next_pong_check, last_pong_age>>
               ELSE /\ next_ping' = FALSE
                    /\ next_pong_check' = FALSE
                    /\ last_pong_age' = -1
                    /\ \E dev \in {-1, 0, 1} : ConnectionEnded(closeEvents, dev)
        /\ args' = Args(IF wasClean THEN "clean" ELSE "unclean", <<>>)
    /\ NoMessage
    /\ last' = "connection_lost"
    /\ sent' = <<>>
    /\ UNCHANGED <<cfgVars, hostVars, tickerVars, ghost, autoAttempts, closeRequested, everOpened>>

\* the delayed call of retry() fires: connector.connect()
Reconnector ==
    /\ factory.callID
    /\ factory' = [factory EXCEPT !.callID = FALSE]
    /\ connector' = "connecting"
    /\ autoAttempts' = autoAttempts + 1
    /\ args' = NoArgs
    /\ NoMessage
    /\ last' = "reconnector"
    /\ events' = <<>>
    /\ sent' = <<>>
    /\ raised' = FALSE
    /\ UNCHANGED <<cfgVars, hostVars, tickerVars, protoVars, noreconnects, closeRequested, everOpened>>

\* ------------------------------------------- KiteTicker.is_connected
\* self.ws.state: a protocol that was replaced by a later connection of its
\* factory is closed
StateOfWs ==
    CASE ws = "cur"    -> proto
      [] ws = "old"    -> "closed"
      [] ws = "orphan" -> "open"
      [] OTHER         -> "none"

\* if self.ws and self.ws.state == self.ws.STATE_OPEN
is_connected == ws # "none" /\ StateOfWs = "open"

\* ----------------------------- KiteTicker.close (stop_retry, _close)
\* stop_retry reads self.factory, which does not exist before connect().
\* _close: self.ws.sendClose() starts the closing handshake on an open
\* protocol and does nothing on a closing or closed one.
Close ==
    /\ args' = NoArgs
    /\ NoMessage
    /\ last' = "close"
    /\ events' = <<>>
    /\ sent' = <<>>
    /\ IF ~hasFactory
       THEN /\ raised' = TRUE
            /\ UNCHANGED <<factory, proto, closeRequested>>
       ELSE /\ raised' = FALSE
            /\ factory' = stopTrying(factory)
            /\ proto' = IF ws = "cur" /\ proto = "open" THEN "closing" ELSE proto
            /\ closeRequested' = TRUE
    /\ UNCHANGED <<cfgVars, hostVars, tickerVars, connector, next_ping, next_pong_check,
                   last_pong_age, ghost, autoAttempts, noreconnects, everOpened>>

\* ------------------------------ KiteTickerClientProtocol keepalive
TickStep == PING_INTERVAL \div 2

\* time passes (tracked only as the age of the last pong)
Tick ==
    /\ last_pong_age >= 0
    /\ last_pong_age <= 2 * PING_INTERVAL
    /\ last_pong_age' = last_pong_age + TickStep
    /\ args' = NoArgs
    /\ NoMessage
    /\ last' = "tick"
    /\ events' = <<>>
    /\ sent' = <<>>
    /\ raised' = FALSE
    /\ UNCHANGED <<cfgVars, hostVars, tickerVars, factory, connector, proto, next_ping,
                   next_pong_check, ghost, histVars>>

\* onPong: self._last_pong_time = time.time()
OnPong ==
    /\ connector = "connected"
    /\ proto = "open"
    /\ last_pong_age' = 0
    /\ args' = NoArgs
    /\ NoMessage
    /\ last' = "pong"
    /\ events' = <<>>
    /\ sent' = <<>>
    /\ raised' = FALSE
    /\ UNCHANGED <<cfgVars, hostVars, tickerVars, factory, connector, proto, next_ping,
                   next_pong_check, ghost, histVars>>

\* _loop_ping fires: sendPing (ignored unless open), then callLater again
LoopPing ==
    /\ next_ping
    /\ next_ping' = TRUE
    /\ args' = NoArgs
    /\ NoMessage
    /\ last' = "loop_ping"
    /\ events' = <<>>
    /\ sent' = <<>>
    /\ raised' = FALSE
    /\ UNCHANGED <<cfgVars, hostVars, tickerVars, factory, connector, proto,
                   next_pong_check, last_pong_age, ghost, histVars>>

\* a faulty variant of PongCheckDrops: the comparison is not strict
PongCheckDropsAtThreshold(age) == age >= 0 /\ age >= 2 * PING_INTERVAL

\* if self._last_pong_time: ... if last_pong_diff > (2 * self.PING_INTERVAL)
PongCheckDrops(age) == age >= 0 /\ age > 2 * PING_INTERVAL

\* _loop_pong_check fires: dropConnection(abort=True) on a stale pong
\* (autobahn: the state becomes CLOSED at once, the transport's
\* connectionLost follows from the reactor), then callLater again
LoopPongCheck ==
    /\ next_pong_check
    /\ proto' = IF PongCheckDrops(last_pong_age) /\ proto \notin {"closed", "dropped"}
                THEN "dropped" ELSE proto
    /\ next_pong_check' = TRUE
    /\ args' = NoArgs
    /\ NoMessage
    /\ last' = "loop_pong_check"
    /\ events' = <<>>
    /\ sent' = <<>>
    /\ raised' = FALSE
    /\ UNCHANGED <<cfgVars, hostVars, tickerVars, factory, connector, next_ping,
                   last_pong_age, ghost, histVars>>

\* a keepalive call of an earlier, closed protocol fires: sendPing and
\* dropConnection do nothing on a closed protocol, and it is scheduled again
GhostTimer ==
    /\ ghost
    /\ args' = NoArgs
    /\ NoMessage
    /\ last' = "ghost_timer"
    /\ events' = <<>>
    /\ sent' = <<>>
    /\ raised' = FALSE
    /\ UNCHANGED <<cfgVars, hostVars, tickerVars, factory, connector, protoVars, histVars>>

\* ------------------------------------------ the host's registry calls
\* assert self.ws is not None; sendMessage needs STATE_OPEN
CanSend == ws = "cur" /\ proto = "open"

\* On failure _close(reason=...) runs before the re-raise: sendClose with a
\* reason and no code raises in autobahn, and self.ws, if any, is not open,
\* so no state changes.
ApiCall(name, a, o) ==
    /\ subscribed_tokens' = o.reg
    /\ sent' = o.sent
    /\ raised' = o.raised
    /\ args' = a
    /\ NoMessage
    /\ last' = name
    /\ events' = <<>>
    /\ UNCHANGED <<cfgVars, hostVars, hasFactory, ws, is_first_connect, factory, connector,
                   protoVars, histVars>>

Subscribe ==
    \E tokens \in TokenLists :
        ApiCall("subscribe", Args("", tokens), subscribe(subscribed_tokens, tokens, CanSend))

Unsubscribe ==
    \E tokens \in TokenLists :
        ApiCall("unsubscribe", Args("", tokens), unsubscribe(subscribed_tokens, tokens, CanSend))

SetMode ==
    \E mode \in Modes, tokens \in TokenLists :
        ApiCall("set_mode", Args(mode, tokens), set_mode(subscribed_tokens, mode, tokens, CanSend))

\* ------------------------------------------ KiteTicker._parse_binary
\* A binary payload is a sequence of bytes.  Every integer of the wire is
\* unsigned and big-endian; the payloads drawn below keep the top bit of
\* every 32-bit field clear.

\* bin[start:end]: a slice stops at the end of the sequence
Slice(bin, start, end) == SubSeq(bin, start + 1, Min(end, Len(bin)))

RECURSIVE BigEndian(_)
BigEndian(bytes) ==
    IF bytes = <<>> THEN 0
    ELSE BigEndian(SubSeq(bytes, 1, Len(bytes) - 1)) * 256 + bytes[Len(bytes)]

\* _unpack_int: struct.unpack raises struct.error unless the slice has exactly
\* the size of the format ("I": 4 bytes, "H": 2 bytes)
unpack_int(bin, start, end, byte_format) ==
    LET slice == Slice(bin, start, end)
        size  == IF byte_format = "H" THEN 2 ELSE 4
    IN  IF Len(slice) = size THEN [raised |-> FALSE, value |-> BigEndian(slice)]
        ELSE [raised |-> TRUE, value |-> 0]

\* the loop of _split_packets from packet i on, j being the read position
RECURSIVE SplitFrom(_, _, _, _, _)
SplitFrom(bin, number_of_packets, i, j, packets) ==
    IF i >= number_of_packets THEN [raised |-> FALSE, packets |-> packets]
    ELSE LET packet_length == unpack_int(bin, j, j + 2, "H")
         IN  IF packet_length.raised THEN [raised |-> TRUE, packets |-> <<>>]
             ELSE SplitFrom(bin, number_of_packets, i + 1, j + 2 + packet_length.value,
                            Append(packets, Slice(bin, j + 2, j + 2 + packet_length.value)))

\* a faulty variant of split_packets: the count is read from any payload
split_packetsUnguarded(bin) ==
    IF unpack_int(bin, 0, 2, "H").raised THEN [raised |-> TRUE, packets |-> <<>>]
    ELSE SplitFrom(bin, unpack_int(bin, 0, 2, "H").value, 0, 2, <<>>)

\* _split_packets: nothing for a payload of less than 2 bytes
split_packets(bin) ==
    IF Len(bin) < 2 THEN [raised |-> FALSE, packets |-> <<>>]
    ELSE SplitFrom(bin, unpack_int(bin, 0, 2, "H").value, 0, 2, <<>>)

ExchangeCDS == 3
ExchangeBCD == 6
ExchangeINDICES == 9

\* a price: the raw integer divided by the divisor, as an exact fraction
\* (the code divides floats; their rounding is not modelled)
Price(raw, divisor) == [num |-> raw, den |-> divisor]

\* a faulty variant of Divisor: the segment is not looked at
DivisorAlwaysHundred(segment) == 100

\* the price divisor of a segment
Divisor(segment) ==
    IF segment = ExchangeCDS THEN 10000000
    ELSE IF segment = ExchangeBCD THEN 10000
    ELSE 100

\* datetime.fromtimestamp: whether an epoch converts depends on the platform.
\* With `strict` the platform's localtime rejects the epochs of the first day
\* (Windows); without it every epoch of the payloads drawn below converts.
\* The binary messages of a connection (Frames) carry no timestamp, so only
\* the decoder's specification looks at both kinds of platform.
\* None is the empty tuple, a datetime the epoch in a 1-tuple.
None == <<>>
SecondsPerDay == 86400
ConversionFails(epoch, strict) == strict /\ epoch < SecondsPerDay

\* a faulty variant of fromtimestamp: every epoch is taken as converted
fromtimestampUnchecked(epoch, strict) == <<epoch>>

fromtimestamp(epoch, strict) ==
    IF ConversionFails(epoch, strict) THEN None ELSE <<epoch>>

\* a faulty variant of Change: close is divided by without a test
ChangeUntested(last_price, close) ==
    [num |-> (last_price.num - close.num) * 100, den |-> close.num]

\* change = (last_price - close) * 100 / close unless close is 0; both prices
\* have the same divisor, which cancels
Change(last_price, close) ==
    IF close.num # 0
    THEN [num |-> (last_price.num - close.num) * 100, den |-> close.num]
    ELSE [num |-> 0, den |-> 1]

\* the depth of a full packet: for i, p in enumerate(range(64, len(packet), 12))
DepthEntry(packet, p, divisor) ==
    [quantity |-> unpack_int(packet, p, p + 4, "I").value,
     price    |-> Price(unpack_int(packet, p + 4, p + 8, "I").value, divisor),
     orders   |-> unpack_int(packet, p + 8, p + 10, "H").value]

Depth(packet, divisor) ==
    [buy  |-> [i \in 1..5 |-> DepthEntry(packet, 64 + 12 * (i - 1), divisor)],
     sell |-> [i \in 1..5 |-> DepthEntry(packet, 64 + 12 * (i + 4), divisor)]]

\* the mode the decoder gives a packet of a supported length
ModeOfLength(length) ==
    IF length = 8 THEN "ltp"
    ELSE IF length = 28 \/ length = 44 THEN "quote"
    ELSE "full"

\* one turn of the loop of _parse_binary: the ticks it appends (none or one),
\* or struct.error.  The token is unpacked before the length is looked at.
parse_packet(packet, strict) ==
    LET token      == unpack_int(packet, 0, 4, "I")
        segment    == token.value % 256
        divisor    == Divisor(segment)
        tradable   == segment # ExchangeINDICES
        length     == Len(packet)
        U(start)   == unpack_int(packet, start, start + 4, "I").value
        P(start)   == Price(U(start), divisor)
        index      == [tradable |-> tradable, mode |-> ModeOfLength(length),
                       instrument_token |-> token.value,
                       last_price |-> P(4),
                       ohlc |-> [high |-> P(8), low |-> P(12), open |-> P(16), close |-> P(20)],
                       change |-> Change(P(4), P(20))]
        quote      == [tradable |-> tradable, mode |-> ModeOfLength(length),
                       instrument_token |-> token.value,
                       last_price |-> P(4),
                       last_traded_quantity |-> U(8),
                       average_traded_price |-> P(12),
                       volume_traded |-> U(16),
                       total_buy_quantity |-> U(20),
                       total_sell_quantity |-> U(24),
                       ohlc |-> [open |-> P(28), high |-> P(32), low |-> P(36), close |-> P(40)],
                       change |-> Change(P(4), P(40))]
    IN  IF token.raised THEN [raised |-> TRUE, ticks |-> <<>>]
        ELSE IF length = 8
        THEN [raised |-> FALSE,
              ticks |-> <<[tradable |-> tradable, mode |-> ModeOfLength(length),
                           instrument_token |-> token.value, last_price |-> P(4)]>>]
        ELSE IF length = 28
        THEN [raised |-> FALSE, ticks |-> <<index>>]
        ELSE IF length = 32
        THEN [raised |-> FALSE,
              ticks |-> <<[tradable |-> index.tradable, mode |-> index.mode,
                           instrument_token |-> index.instrument_token,
                           last_price |-> index.last_price, ohlc |-> index.ohlc,
                           change |-> index.change,
                           exchange_timestamp |-> fromtimestamp(U(28), strict)]>>]
        ELSE IF length = 44
        THEN [raised |-> FALSE, ticks |-> <<quote>>]
        ELSE IF length = 184
        THEN [raised |-> FALSE,
              ticks |-> <<[tradable |-> quote.tradable, mode |-> quote.mode,
                           instrument_token |-> quote.instrument_token,
                           last_price |-> quote.last_price,
                           last_traded_quantity |-> quote.last_traded_quantity,
                           average_traded_price |-> quote.average_traded_price,
                           volume_traded |-> quote.volume_traded,
                           total_buy_quantity |-> quote.total_buy_quantity,
                           total_sell_quantity |-> quote.total_sell_quantity,
                           ohlc |-> quote.ohlc, change |-> quote.change,
                           last_trade_time |-> fromtimestamp(U(44), strict),
                           oi |-> U(48), oi_day_high |-> U(52), oi_day_low |-> U(56),
                           exchange_timestamp |-> fromtimestamp(U(60), strict),
                           depth |-> Depth(packet, divisor)]>>]
        ELSE [raised |-> FALSE, ticks |-> <<>>]

\* the loop of _parse_binary over the packets from packet i on
RECURSIVE ParseFrom(_, _, _, _)
ParseFrom(packets, i, data, strict) ==
    IF i > Len(packets) THEN [raised |-> FALSE, ticks |-> data]
    ELSE LET t == parse_packet(packets[i], strict)
         IN  IF t.raised THEN [raised |-> TRUE, ticks |-> <<>>]
             ELSE ParseFrom(packets, i + 1, data \o t.ticks, strict)

parse_binary(bin, strict) ==
    LET split == split_packets(bin)
    IN  IF split.raised THEN [raised |-> TRUE, ticks |-> <<>>]
        ELSE ParseFrom(split.packets, 1, <<>>, strict)

\* ------------------------------------- the binary messages of the server
\* the wire format that _split_packets and _parse_binary read: a 2-byte
\* packet count, then every packet after its 2-byte length
MaxPackets == 2

U16(n) == <<n \div 256, n % 256>>
U32(n) == <<n \div 16777216, (n \div 65536) % 256, (n \div 256) % 256, n % 256>>

RECURSIVE Concat(_)
Concat(seqs) == IF seqs = <<>> THEN <<>> ELSE Head(seqs) \o Concat(Tail(seqs))

Words(values) == Concat([i \in DOMAIN values |-> U32(values[i])])

Wire(packets, missing, cut) ==
    LET whole == U16(Len(packets) + missing) \o
                 Concat([i \in DOMAIN packets |-> U16(Len(packets[i])) \o packets[i]])
    IN  SubSeq(whole, 1, Len(whole) - cut)

BinaryMessage(packets, missing, cut) ==
    [binary |-> TRUE, bytes |-> Wire(packets, missing, cut), packets |-> packets,
     missing |-> missing, cut |-> cut, json |-> "", type |-> "", data |-> ""]

\* the raw values of the fields of the packets drawn below
Raw == [last_price |-> 15025, open |-> 15000, high |-> 15100, low |-> 14900,
        last_traded_quantity |-> 7, average_traded_price |-> 15020,
        volume_traded |-> 1000, total_buy_quantity |-> 300, total_sell_quantity |-> 400,
        oi |-> 50, oi_day_high |-> 60, oi_day_low |-> 40, price_change |-> 15]
RawDepth(i) == [quantity |-> 10 + i, price |-> 15000 + i, orders |-> i]

\* instrument tokens of NSE (low byte 1, one of them with a 3 above it),
\* CDS (3), BCD (6) and INDICES (9)
WireTokens == {408065, 769, 259, 262, 256265}
Closes == {0, 15010}
Epochs == {0, 1700000000}

LtpPacket(token) == Words(<<token, Raw.last_price>>)
IndexQuotePacket(token, close) ==
    Words(<<token, Raw.last_price, Raw.high, Raw.low, Raw.open, close, Raw.price_change>>)
IndexFullPacket(token, close, exchange_timestamp) ==
    IndexQuotePacket(token, close) \o U32(exchange_timestamp)
QuotePacket(token, close) ==
    Words(<<token, Raw.last_price, Raw.last_traded_quantity, Raw.average_traded_price,
            Raw.volume_traded, Raw.total_buy_quantity, Raw.total_sell_quantity,
            Raw.open, Raw.high, Raw.low, close>>)
FullPacket(token, close, last_trade_time, exchange_timestamp) ==
    QuotePacket(token, close) \o
    Words(<<last_trade_time, Raw.oi, Raw.oi_day_high, Raw.oi_day_low, exchange_timestamp>>) \o
    Concat([i \in 1..10 |-> U32(RawDepth(i).quantity) \o U32(RawDepth(i).price) \o
                            U16(RawDepth(i).orders) \o <<0, 0>>])

SupportedLengths == {8, 28, 32, 44, 184}

\* packets of other lengths: 0, 3, 4 and 12 bytes
OddPackets == {<<>>, <<0, 0, 1>>, U32(408065), Words(<<408065, Raw.last_price, Raw.open>>)}

WirePackets ==
    {LtpPacket(t) : t \in WireTokens}
    \cup {IndexQuotePacket(t, c) : t \in WireTokens, c \in Closes}
    \cup {IndexFullPacket(t, c, e) : t \in WireTokens, c \in Closes, e \in Epochs}
    \cup {QuotePacket(t, c) : t \in WireTokens, c \in Closes}
    \cup {FullPacket(t, c, l, e) : t \in WireTokens, c \in Closes, l \in Epochs, e \in Epochs}
    \cup OddPackets

\* the packets that messages of several packets are made of
PacketPool ==
    {LtpPacket(408065), IndexQuotePacket(256265, 15010), IndexFullPacket(256265, 0, 0),
     QuotePacket(259, 15010), FullPacket(262, 15010, 0, 1700000000),
     <<>>, <<0, 0, 1>>, Words(<<408065, Raw.last_price, Raw.open>>)}

RECURSIVE PacketSeqs(_)
PacketSeqs(n) ==
    IF n = 0 THEN {<<>>}
    ELSE LET shorter == PacketSeqs(n - 1)
         IN  shorter \cup {Append(s, p) : s \in {x \in shorter : Len(x) = n - 1}, p \in PacketPool}

\* the numbers of bytes a truncated message has lost
Cuts == {1, 2, 6, 16}

BinaryMessages ==
    {BinaryMessage(<<p>>, 0, 0) : p \in WirePackets}
    \cup {BinaryMessage(ps, 0, 0) : ps \in PacketSeqs(MaxPackets)}
    \cup {BinaryMessage(ps, 1, 0) : ps \in PacketSeqs(MaxPackets)}
    \cup {BinaryMessage(m[1], 0, m[2]) :
            m \in {x \in PacketSeqs(MaxPackets) \X Cuts : x[2] <= Len(Wire(x[1], 0, 0))}}

\* _parse_binary applied to the binary message at hand
ParseBinary ==
    /\ payload.binary
    /\ ticks' = parse_binary(payload.bytes, localtime_strict).ticks
    /\ raised' = parse_binary(payload.bytes, localtime_strict).raised
    /\ UNCHANGED payload
    /\ args' = NoArgs
    /\ last' = "parse_binary"
    /\ events' = <<>>
    /\ sent' = <<>>
    /\ UNCHANGED <<cfgVars, hostVars, tickerVars, factory, connector, protoVars, histVars>>

\* ------------- KiteTickerClientProtocol.onMessage, KiteTicker._on_message
\* the inbound messages: text that is not JSON, JSON that is not an object,
\* JSON objects by their "type" and "data" (absent, present but empty or
\* zero, or present with content); a binary heartbeat of one byte, a binary
\* message of one packet and one whose only packet has lost 6 of its 8 bytes
Frames ==
    {TextMessage("invalid", "", ""), TextMessage("value", "", "")}
    \cup {TextMessage("object", type, data) :
            type \in {"order", "error", "other", "absent"},
            data \in {"absent", "empty", "content"}}
    \cup {BinaryMessage(<<>>, 0, 1),
          BinaryMessage(<<LtpPacket(408065)>>, 0, 0),
          BinaryMessage(<<LtpPacket(408065)>>, 0, 6)}

\* a faulty variant of parse_text_message: text that is not JSON raises
parse_text_messageUncaught(frame) ==
    CASE frame.json = "object" ->
            [events |-> (IF frame.type = "order" /\ frame.data = "content"
                         THEN <<EvData("on_order_update", 0, frame.data)>> ELSE <<>>) \o
                        (IF frame.type = "error"
                         THEN <<EvData("on_error", 0, frame.data)>> ELSE <<>>),
             raised |-> FALSE]
      [] OTHER -> [events |-> <<>>, raised |-> TRUE]

\* a faulty variant of parse_text_message: the error of a message has the
\* code of an abnormal close
parse_text_messageAbnormalCode(frame) ==
    CASE frame.json = "invalid" -> [events |-> <<>>, raised |-> FALSE]
      [] frame.json = "value"   -> [events |-> <<>>, raised |-> TRUE]
      [] OTHER ->
            [events |-> (IF frame.type = "order" /\ frame.data = "content"
                         THEN <<EvData("on_order_update", 0, frame.data)>> ELSE <<>>) \o
                        (IF frame.type = "error"
                         THEN <<EvData("on_error", CLOSE_STATUS_CODE_ABNORMAL_CLOSE, frame.data)>>
                         ELSE <<>>),
             raised |-> FALSE]

\* a faulty variant of parse_text_message: every message of type "order" is
\* passed on, whatever its data
parse_text_messageAnyOrder(frame) ==
    CASE frame.json = "invalid" -> [events |-> <<>>, raised |-> FALSE]
      [] frame.json = "value"   -> [events |-> <<>>, raised |-> TRUE]
      [] OTHER ->
            [events |-> (IF frame.type = "order"
                         THEN <<EvData("on_order_update", 0, frame.data)>> ELSE <<>>) \o
                        (IF frame.type = "error"
                         THEN <<EvData("on_error", 0, frame.data)>> ELSE <<>>),
             raised |-> FALSE]

\* _parse_text_message: json.loads, ValueError ignored; data.get raises on a
\* value that is not an object; on_order_update for type "order" with data
\* that is truthy; _on_error with code 0 and data.get("data") for type "error"
parse_text_message(frame) ==
    CASE frame.json = "invalid" -> [events |-> <<>>, raised |-> FALSE]
      [] frame.json = "value"   -> [events |-> <<>>, raised |-> TRUE]
      [] OTHER ->
            [events |-> (IF frame.type = "order" /\ frame.data = "content"
                         THEN <<EvData("on_order_update", 0, frame.data)>> ELSE <<>>) \o
                        (IF frame.type = "error"
                         THEN <<EvData("on_error", 0, frame.data)>> ELSE <<>>),
             raised |-> FALSE]

\* _on_message: on_message, then on_ticks with the decoded ticks for binary
\* of more than 4 bytes, then _parse_text_message for text
on_message(frame, strict) ==
    LET decode == frame.binary /\ Len(frame.bytes) > 4
        b == IF decode THEN parse_binary(frame.bytes, strict)
             ELSE [raised |-> FALSE, ticks |-> <<>>]
        t == IF frame.binary THEN [events |-> <<>>, raised |-> FALSE]
             ELSE parse_text_message(frame)
    IN  [events |-> <<Ev("on_message", 0)>> \o
                    (IF decode /\ ~b.raised THEN <<Ev("on_ticks", 0)>> ELSE <<>>) \o t.events,
         ticks  |-> b.ticks,
         raised |-> b.raised \/ t.raised]

OnMessage ==
    /\ connector = "connected"
    /\ proto = "open"
    /\ \E frame \in Frames :
          /\ payload' = frame
          /\ events' = on_message(frame, localtime_strict).events
          /\ ticks' = on_message(frame, localtime_strict).ticks
          /\ raised' = on_message(frame, localtime_strict).raised
    /\ args' = NoArgs
    /\ last' = "message"
    /\ sent' = <<>>
    /\ UNCHANGED <<cfgVars, hostVars, tickerVars, factory, connector, protoVars, histVars>>

\* ------------------------- KiteTicker.connect over a live connection
\* connect() does not look at the connection it already has:
\* _create_connection replaces self.factory and sets self.ws to None, and
\* connectWS starts a second connector.  The replaced factory keeps its
\* connector, protocol, timers and retry policy, and its callbacks are still
\* bound to this client.  Only the number of such orphaned connections is
\* kept; the retry bookkeeping of their factories is not.
ConnectAgain ==
    /\ hasFactory
    /\ connector # "disconnected" \/ factory.callID
    /\ orphans < MaxOrphans
    /\ orphans' = orphans + 1
    /\ factory' = NewFactory
    /\ ws' = "none"
    /\ connector' = "connecting"
    /\ proto' = "none"
    /\ next_ping' = FALSE
    /\ next_pong_check' = FALSE
    /\ last_pong_age' = -1
    /\ args' = NoArgs
    /\ NoMessage
    /\ last' = "connect"
    /\ events' = <<>>
    /\ sent' = <<>>
    /\ raised' = FALSE
    /\ autoAttempts' = 0
    /\ noreconnects' = 0
    /\ closeRequested' = FALSE
    /\ UNCHANGED <<cfgVars, replayTodo, replayFrom, hasFactory, is_first_connect, subscribed_tokens,
                   ghost, everOpened>>

\* onConnect, then onOpen, of a protocol of an orphaned connection:
\* _on_connect makes it self.ws; _on_open replays unless it is the first open
OrphanOnConnectOnOpen ==
    /\ orphans > 0
    /\ LET r == IF is_first_connect THEN Outcome(subscribed_tokens, <<>>, FALSE)
                ELSE resubscribe(subscribed_tokens, TRUE)
       IN  /\ subscribed_tokens' = r.reg
           /\ sent' = r.sent
           /\ raised' = r.raised
           /\ is_first_connect' = IF r.raised THEN is_first_connect ELSE FALSE
           /\ events' = <<Ev("on_connect", 0)>> \o
                        (IF r.raised THEN <<>> ELSE <<Ev("on_open", 0)>>)
    /\ ws' = "orphan"
    /\ everOpened' = TRUE
    /\ args' = NoArgs
    /\ NoMessage
    /\ last' = "orphan_open"
    /\ UNCHANGED <<cfgVars, hostVars, hasFactory, factory, connector, protoVars,
                   autoAttempts, noreconnects, closeRequested>>

\* onMessage of a protocol of an orphaned connection
OrphanOnMessage ==
    /\ orphans > 0
    /\ \E frame \in Frames :
          /\ payload' = frame
          /\ events' = on_message(frame, localtime_strict).events
          /\ ticks' = on_message(frame, localtime_strict).ticks
          /\ raised' = on_message(frame, localtime_strict).raised
    /\ args' = NoArgs
    /\ last' = "orphan_message"
    /\ sent' = <<>>
    /\ UNCHANGED <<cfgVars, hostVars, tickerVars, factory, connector, protoVars, histVars>>

\* onClose of a protocol of an orphaned connection, after which its factory
\* either retries (it stays an orphan) or has given up
OrphanConnectionLost ==
    /\ orphans > 0
    /\ \E wasClean, gaveUp \in BOOLEAN :
          /\ events' = (IF wasClean THEN <<>> ELSE <<Ev("on_error", CLOSE_STATUS_CODE_ABNORMAL_CLOSE)>>) \o <<Ev("on_close", 0)>>
          /\ orphans' = IF gaveUp THEN orphans - 1 ELSE orphans
    /\ ws' = IF ws = "orphan" THEN "old" ELSE ws
    /\ args' = NoArgs
    /\ NoMessage
    /\ last' = "orphan_lost"
    /\ sent' = <<>>
    /\ raised' = FALSE
    /\ UNCHANGED <<cfgVars, replayTodo, replayFrom, hasFactory, is_first_connect, subscribed_tokens,
                   factory, connector, protoVars, histVars>>

\* ------------------------------------- threaded mode (connect(threaded=True))
\* The reactor runs in its own thread; subscribe, unsubscribe and set_mode
\* run on the thread that calls them (they call self.ws.sendMessage and
\* write self.subscribed_tokens directly), so they can run between two
\* statements of a handler of the reactor thread.  The handler followed
\* statement by statement is _on_open with its replay: resubscribe() first
\* builds `modes` from the registry, then makes its calls one after another.

\* the calls of the second loop of resubscribe, in order
RECURSIVE ReplayCalls(_)
ReplayCalls(groups) ==
    IF groups = <<>> THEN <<>>
    ELSE <<Cmd("subscribe", "", Head(groups).tokens),
           Cmd("mode", Head(groups).mode, Head(groups).tokens)>> \o ReplayCalls(Tail(groups))

\* the reactor thread is between two handlers
LoopIdle == replayTodo = <<>>

\* onConnect, then onOpen up to the end of the first loop of resubscribe
OnOpenThreaded ==
    /\ LoopIdle
    /\ connector = "connected"
    /\ proto = "handshake"
    /\ LET calls == IF is_first_connect THEN <<>>
                    ELSE ReplayCalls(ModeGroups(subscribed_tokens))
       IN  /\ replayTodo' = calls
           /\ replayFrom' = IF calls = <<>> THEN <<>> ELSE subscribed_tokens
           /\ is_first_connect' = IF calls = <<>> THEN FALSE ELSE is_first_connect
           /\ events' = <<Ev("on_connect", 0)>> \o
                        (IF calls = <<>> THEN <<Ev("on_open", 0)>> ELSE <<>>)
    /\ ws' = "cur"
    /\ factory' = resetDelay(factory)
    /\ proto' = "open"
    /\ next_ping' = TRUE
    /\ next_pong_check' = TRUE
    /\ args' = NoArgs
    /\ NoMessage
    /\ last' = "open"
    /\ sent' = <<>>
    /\ raised' = FALSE
    /\ autoAttempts' = 0
    /\ noreconnects' = 0
    /\ everOpened' = TRUE
    /\ UNCHANGED <<cfgVars, orphans, hasFactory, subscribed_tokens, connector,
                   last_pong_age, ghost, closeRequested>>

\* the next call of resubscribe; after the last one _on_open clears
\* _is_first_connect and calls on_open; a call that raises ends the handler
ReplayStep ==
    /\ ~LoopIdle
    /\ LET c == Head(replayTodo)
           o == IF c.a = "subscribe" THEN subscribe(subscribed_tokens, c.v, CanSend)
                ELSE set_mode(subscribed_tokens, c.mode, c.v, CanSend)
           done == ~o.raised /\ Tail(replayTodo) = <<>>
       IN  /\ subscribed_tokens' = o.reg
           /\ sent' = o.sent
           /\ raised' = o.raised
           /\ replayTodo' = IF o.raised THEN <<>> ELSE Tail(replayTodo)
           /\ replayFrom' = IF done THEN <<>> ELSE replayFrom
           /\ is_first_connect' = IF done THEN FALSE ELSE is_first_connect
           /\ events' = IF done THEN <<Ev("on_open", 0)>> ELSE <<>>
    /\ args' = NoArgs
    /\ NoMessage
    /\ last' = "replay_step"
    /\ UNCHANGED <<cfgVars, orphans, hasFactory, ws, factory, connector, protoVars, histVars>>

\* the other handlers of the reactor thread start when it is idle
LoopHandler ==
    /\ LoopIdle
    /\ \/ ClientConnectionFailed
       \/ TcpConnected
       \/ ConnectionLost
       \/ Reconnector

\* -------------------------------------------------------------- specs
\* The connection, retry and keepalive machine, over every configuration.
Next ==
    \/ Connect
    \/ ClientConnectionFailed
    \/ TcpConnected
    \/ OnConnectOnOpen
    \/ ConnectionLost
    \/ Reconnector
    \/ Close
    \/ Tick
    \/ OnPong
    \/ LoopPing
    \/ LoopPongCheck
    \/ GhostTimer

Spec == Init /\ [][Next]_vars

\* The registry calls over the connection's life cycle, for one
\* configuration (one retry, the least maximum delay, no debug logging).
InitRegistry ==
    /\ Init
    /\ reconnect_max_tries = 1
    /\ reconnect_max_delay = MinimumReconnectMaxDelay
    /\ reconnect = TRUE
    /\ debug = FALSE

NextRegistry ==
    \/ Connect
    \/ ClientConnectionFailed
    \/ TcpConnected
    \/ OnConnectOnOpen
    \/ ConnectionLost
    \/ Reconnector
    \/ Subscribe
    \/ Unsubscribe
    \/ SetMode

SpecRegistry == InitRegistry /\ [][NextRegistry]_vars

\* The connection machine for a host that also calls connect() while a
\* connection, an attempt or a retry is still alive (one configuration).
NextTwoConnects ==
    \/ Connect
    \/ ConnectAgain
    \/ ClientConnectionFailed
    \/ TcpConnected
    \/ OnConnectOnOpen
    \/ OnMessage
    \/ ConnectionLost
    \/ Reconnector
    \/ Close
    \/ Tick
    \/ OnPong
    \/ LoopPing
    \/ LoopPongCheck
    \/ GhostTimer
    \/ OrphanOnConnectOnOpen
    \/ OrphanOnMessage
    \/ OrphanConnectionLost

SpecTwoConnects == InitRegistry /\ [][NextTwoConnects]_vars

\* Threaded mode: the registry calls come from another thread.
NextThreaded ==
    \/ LoopIdle /\ Connect
    \/ LoopHandler
    \/ OnOpenThreaded
    \/ ReplayStep
    \/ Subscribe
    \/ Unsubscribe
    \/ SetMode

SpecThreaded == InitRegistry /\ [][NextThreaded]_vars

\* Threaded mode where the only call the host's thread makes while the
\* reactor thread is inside a handler is close().
NextReplayClosed ==
    \/ LoopIdle /\ Connect
    \/ LoopHandler
    \/ OnOpenThreaded
    \/ ReplayStep
    \/ Close
    \/ LoopIdle /\ Subscribe
    \/ LoopIdle /\ SetMode

SpecReplayClosed == InitRegistry /\ [][NextReplayClosed]_vars

\* Runs of failing connection attempts, for retry limits and maximum delays
\* inside and outside the accepted range.
InitLimits ==
    /\ tries_arg \in TriesArgs
    /\ delay_arg \in DelayArgs
    /\ reconnect = TRUE
    /\ debug = FALSE
    /\ localtime_strict = FALSE
    /\ payload = NoPayload
    /\ Constructed

NextLimits ==
    \/ Connect
    \/ ClientConnectionFailed
    \/ Reconnector

SpecLimits == InitLimits /\ [][NextLimits]_vars

\* Every connection attempt fails, over every configuration: an attempt
\* under way ends in clientConnectionFailed, and the delayed call of a
\* scheduled retry fires.
SpecFailing ==
    /\ Init
    /\ [][NextLimits]_vars
    /\ WF_vars(ClientConnectionFailed)
    /\ WF_vars(Reconnector)

\* The same with close() and inbound messages.
NextClient ==
    \/ Connect
    \/ ClientConnectionFailed
    \/ TcpConnected
    \/ OnConnectOnOpen
    \/ OnMessage
    \/ ConnectionLost
    \/ Reconnector
    \/ Close
    \/ Subscribe
    \/ Unsubscribe
    \/ SetMode

SpecClient == InitRegistry /\ [][NextClient]_vars

\* A connection that receives messages, its registry filled by subscribe.
NextMessages ==
    \/ Connect
    \/ ClientConnectionFailed
    \/ TcpConnected
    \/ OnConnectOnOpen
    \/ OnMessage
    \/ ConnectionLost
    \/ Reconnector
    \/ Close
    \/ Subscribe

SpecMessages == InitRegistry /\ [][NextMessages]_vars

\* The decoder of binary messages, applied to well-formed and truncated
\* messages of up to MaxPackets packets.
InitDecoder ==
    /\ tries_arg = MaxTriesCfg
    /\ delay_arg = MinimumReconnectMaxDelay
    /\ reconnect = TRUE
    /\ debug = FALSE
    /\ localtime_strict \in BOOLEAN
    /\ payload \in BinaryMessages
    /\ Constructed

NextDecoder == ParseBinary

SpecDecoder == InitDecoder /\ [][NextDecoder]_vars

\* ==================================================================
\* Claims
\* ==================================================================

\* the retry budget of the current failure run is used up
Exhausted == factory.retries > maxRetries

\* C1: with retry limit maxRetries = M, no automatic reconnect attempt beyond
\* the M-th is ever started; once M automatic reconnects have failed no retry
\* is pending or in progress and on_noreconnect has been invoked exactly once
\* for that failure run; before that it has not been invoked at all.
C1_ExhaustionNotifiedOnce ==
    /\ autoAttempts <= maxRetries
    /\ Exhausted => /\ noreconnects = 1
                    /\ autoAttempts = maxRetries
                    /\ ~factory.callID
                    /\ connector = "disconnected"
    /\ ~Exhausted => noreconnects = 0

\* C1 on clients built with debug=False (where it holds)
C1_ExhaustionNotifiedOnce_NoDebug == ~debug => C1_ExhaustionNotifiedOnce

C1_Witness_NoDebug ==
    ~debug /\ maxRetries = 2 /\ Exhausted /\ noreconnects = 1 /\ everOpened

\* C2: once close() has returned, and until connect() is called again, the
\* client is never Open and no automatic reconnect is pending or started.
C2_CloseSuppressesRetries ==
    closeRequested => /\ proto # "open"
                      /\ ~factory.callID
                      /\ last # "reconnector"

\* the tokens of a list
Range(seq) == {seq[i] : i \in DOMAIN seq}

RetryScheduled == factory'.callID /\ ~factory.callID

\* C4: the delay chosen for each scheduled retry is at least the delay before
\* it and at most the configured maximum delay, and a successful connection
\* returns the delay to its initial value.
C4_BackoffMonotoneAndCapped ==
    [][/\ RetryScheduled => /\ factory'.delay >= factory.delay
                            /\ factory'.delay <= reconnect_max_delay
       /\ last' = "open" => factory'.delay = InitialDelay
    ]_vars

\* C4, the part that holds: a successful connection resets the delay
C4_DelayResetOnOpen == proto \in {"open", "closing", "dropped"} => factory.delay = InitialDelay

\* C5: every successful connection resets the retry counter to 0, and a run
\* of failures is declared exhausted only after maxRetries automatic
\* reconnect attempts made since the last successful connection.
C5_RetriesResetOnConnect ==
    /\ proto \in {"open", "closing", "dropped"} => factory.retries = 0
    /\ Exhausted => autoAttempts = maxRetries

\* after a successful connection a failure run used its full budget of 2
C5_Witness ==
    /\ everOpened
    /\ maxRetries = 2
    /\ Exhausted
    /\ autoAttempts = 2

\* C6: a pong-check firing on an Open connection force-drops it (abort, no
\* closing handshake) when a pong was received and more than 2 * PING_INTERVAL
\* has passed since the last one; a connection is force-dropped only then, so
\* never while no pong has been received on it.
C6_PongWatchdog ==
    [][last' = "loop_pong_check" =>
        /\ (proto = "open" /\ last_pong_age > 2 * PING_INTERVAL) => proto' = "dropped"
        /\ (proto' = "dropped" /\ proto # "dropped") =>
              (last_pong_age # -1 /\ last_pong_age > 2 * PING_INTERVAL)
        /\ (proto = "open" /\ (last_pong_age = -1 \/ last_pong_age <= 2 * PING_INTERVAL)) =>
              proto' = "open"
    ]_vars

\* the watchdog has just dropped a connection
C6_Witness ==
    /\ last = "loop_pong_check"
    /\ proto = "dropped"
    /\ connector = "connected"
    /\ last_pong_age > 2 * PING_INTERVAL

\* a pong-check fired with the last pong exactly 2 * PING_INTERVAL old and
\* the connection stayed open
C6_WitnessNotStale ==
    last = "loop_pong_check" /\ proto = "open" /\ last_pong_age = 2 * PING_INTERVAL

\* C7: a closed connection has no pending keepalive call: once onClose has
\* run, neither its ping call nor its pong-check call is pending, and no
\* call of an earlier closed connection is.
C7_NoTimerAfterClose ==
    /\ proto = "closed" => (~next_ping /\ ~next_pong_check)
    /\ ~ghost

\* C7 for closes whose host callbacks returned (where it holds)
C7_NoTimerAfterCleanCallbacks ==
    (proto = "closed" /\ last = "connection_lost" /\ ~raised) => (~next_ping /\ ~next_pong_check)

\* the registry entry of a token: its mode, or "absent"
EntryOf(reg, t) == IF Has(reg, t) THEN ModeOf(reg, t) ELSE "absent"

C8_SubscribeOverwritesWithQuote ==
    [][(last' = "subscribe" /\ ~raised') =>
        \A t \in Tokens :
            EntryOf(subscribed_tokens', t) =
                IF t \in Range(args'.v) THEN "quote" ELSE EntryOf(subscribed_tokens, t)
    ]_vars

TokensOfMode(reg, m) ==
    LET es == SelectSeq(reg, LAMBDA e : e.mode = m)
    IN  [i \in DOMAIN es |-> es[i].token]

\* the modes present in the registry
ModesIn(reg) == {reg[i].mode : i \in DOMAIN reg}

\* the place of a registered token in the registry
PosOf(reg, t) == CHOOSE i \in DOMAIN reg : reg[i].token = t

ApiNames == {"subscribe", "unsubscribe", "set_mode"}

\* C12 (as stated): subscribe, unsubscribe or set_mode called while the
\* connection is not Open fails: the error is raised to the caller, nothing
\* is sent, and a close of the connection is requested, so that a transport
\* that is up after the call is closing or closed.
C12_NotOpenCommandFailsAndCloses ==
    [][(last' \in ApiNames /\ ~CanSend) =>
          /\ raised'
          /\ sent' = <<>>
          /\ connector' = "connected" => proto' \in {"closing", "dropped", "closed"}
    ]_vars

\* C12, the part that holds: the call raises and sends nothing
C12_NotOpenCommandRaises ==
    [][(last' \in ApiNames /\ ~CanSend) => (raised' /\ sent' = <<>>)]_vars

\* C13 (as stated): every automatic reconnect attempt is announced: the step
\* that schedules the k-th retry of a failure run invokes on_reconnect with
\* the already incremented count k, the first retry after an Open connection
\* included.
C13_RetryAnnouncedWithCount ==
    [][RetryScheduled => Ev("on_reconnect", factory'.retries) \in Range(events')]_vars

\* C13, what the code does: the step that schedules retry k announces the
\* count k - 1 it had before, and announces nothing for the first retry
C13_AnnouncesPreviousCount ==
    [][RetryScheduled =>
          /\ factory'.retries = factory.retries + 1
          /\ factory.retries > 0 <=> Ev("on_reconnect", factory.retries) \in Range(events')
          /\ Ev("on_reconnect", factory'.retries) \notin Range(events')
    ]_vars

C14_WitnessConnect ==
    /\ last = "connect"
    /\ everOpened
    /\ subscribed_tokens = <<Entry(1, "full"), Entry(2, "ltp")>>

\* C15: a client constructed with reconnect=False never schedules or starts
\* an automatic reconnect after a connection failure or loss.
C15_NoRetryWhenReconnectOff ==
    ~reconnect => (~factory.callID /\ autoAttempts = 0)

\* no connection, no connection attempt and no pending retry
Disconnected == connector = "disconnected" /\ ~factory.callID

\* a step that changes nothing the host can observe and emits nothing
SilentNoOp ==
    /\ events' = <<>>
    /\ sent' = <<>>
    /\ ~factory'.callID
    /\ UNCHANGED <<connector, proto, ws, subscribed_tokens, is_first_connect,
                   next_ping, next_pong_check, last_pong_age>>

\* C16: close() raises no error in any state, before any connect(), after a
\* previous close() and after the retries were exhausted included, and every
\* call made while the client is Disconnected changes no state and emits no
\* event.
C16_CloseIdempotent ==
    [][last' = "close" => (~raised' /\ (Disconnected => SilentNoOp))]_vars

\* C16, the part that holds: once connect() has been called, close() never
\* raises, and it is a no-op on a Disconnected client
C16_CloseIdempotentAfterConnect ==
    [][(last' = "close" /\ hasFactory) => (~raised' /\ (Disconnected => SilentNoOp))]_vars

\* the connections, attempts and pending retries this client has
ActiveSockets == orphans + (IF Disconnected THEN 0 ELSE 1)

\* C17: one client instance owns at most one active socket (one connection
\* or connection attempt with its timers) at a time, also after a connect()
\* issued while a connection is Connecting or Open.
C17_OneActiveSocket == ActiveSockets <= 1

C18_ReplayKeepsHostUpdate ==
    [][(last = "set_mode" /\ ~raised /\ last' = "replay_step") =>
          \A t \in Range(args.v) : EntryOf(subscribed_tokens', t) = args.mode
    ]_vars

\* the client's current connection is in the Open state
CurrentOpen == connector = "connected" /\ proto = "open"

\* C19, without the sentence on close(): is_connected() is true exactly when
\* the current connection is Open; it is false before connect(), while
\* connecting and during the handshake, while a reconnect is pending and
\* after the retries are exhausted
C19_IsConnectedIffOpen ==
    /\ is_connected <=> CurrentOpen
    /\ ~hasFactory => ~is_connected
    /\ connector = "connecting" => ~is_connected
    /\ proto = "handshake" => ~is_connected
    /\ factory.callID => ~is_connected
    /\ Exhausted => ~is_connected

Max(a, b) == IF a > b THEN a ELSE b

\* min(reconnect_max_tries, 300) and max(reconnect_max_delay, 5 s) of the
\* values passed to the constructor
EffectiveTries == Min(tries_arg, MaximumReconnectMaxTries)
EffectiveDelay == Max(delay_arg, MinimumReconnectMaxDelay)

\* C20: whatever reconnect_max_tries and reconnect_max_delay the host
\* passes, the client is constructed with retry limit min(tries, 300) and
\* maximum delay max(delay, 5 s), and the retry policy of every connection
\* uses these: no attempt beyond the effective limit, exhaustion exactly
\* after that many attempts, and a delay drawn around the effective maximum
\* once the exponential growth has passed it (from the sixth retry on).
C20_ConfigClamped ==
    /\ reconnect_max_tries = EffectiveTries
    /\ reconnect_max_delay = EffectiveDelay
    /\ autoAttempts <= EffectiveTries
    /\ Exhausted => (autoAttempts = EffectiveTries /\ noreconnects = 1)
    /\ ~Exhausted => noreconnects = 0
    /\ factory.callID => factory.delay <= Jittered(EffectiveDelay, 1)
    /\ factory.retries >= 6 =>
          factory.delay \in {Jittered(EffectiveDelay, dev) : dev \in {-1, 0, 1}}

\* a client given 301 or more tries and a maximum delay below the floor gave
\* up after exactly 300 automatic attempts
C20_Witness ==
    /\ tries_arg > MaximumReconnectMaxTries
    /\ delay_arg < MinimumReconnectMaxDelay
    /\ Exhausted
    /\ autoAttempts = MaximumReconnectMaxTries
    /\ factory.delay > delay_arg

\* the connection, its retry policy and the registry
ConnectionAndRegistry == <<tickerVars, factory, connector, protoVars, histVars>>

\* the handler that has just run was given this kind of text message
TextHandled(json) == last' = "message" /\ ~payload'.binary /\ payload'.json = json

\* C21: an inbound text message that is not valid JSON raises no error,
\* invokes no event callback at all, and leaves the connection state and the
\* registry unchanged.
C21_InvalidJsonNoCallback ==
    [][TextHandled("invalid") =>
          /\ ~raised'
          /\ events' = <<>>
          /\ UNCHANGED ConnectionAndRegistry]_vars

\* C21, amended: an inbound text message that is not valid JSON raises no
\* error, invokes no event callback other than the raw-message callback
\* (on_message, which every inbound message invokes), sends nothing, and
\* leaves the connection state and the registry unchanged.
C21_InvalidJsonOnlyRawMessage ==
    [][TextHandled("invalid") =>
          /\ ~raised'
          /\ events' = <<Ev("on_message", 0)>>
          /\ sent' = <<>>
          /\ UNCHANGED ConnectionAndRegistry]_vars

C21_Witness ==
    /\ last = "message"
    /\ payload.json = "invalid"
    /\ subscribed_tokens # <<>>
    /\ events = <<Ev("on_message", 0)>>

\* the callbacks of the given name among the events
EventsOf(evs, cb) == {i \in DOMAIN evs : evs[i].cb = cb}

\* C22: for an inbound text message that decodes to a JSON object, an
\* order-update event carrying the object's data is emitted if and only if
\* type is "order" and the object has a data field; objects with an
\* unrecognized type emit neither an order-update nor an error event.
C22_OrderUpdateIffDataField ==
    [][TextHandled("object") =>
          /\ (EventsOf(events', "on_order_update") # {})
                <=> (payload'.type = "order" /\ payload'.data # "absent")
          /\ \A i \in EventsOf(events', "on_order_update") : events'[i].data = payload'.data
          /\ payload'.type \notin {"order", "error"} =>
                EventsOf(events', "on_order_update") \cup EventsOf(events', "on_error") = {}]_vars

\* C22, amended: an order-update event carrying the object's data is emitted
\* (once) if and only if type is "order" and the object has a data field
\* whose value is not empty or zero (is truthy); objects with an unrecognized
\* type emit neither an order-update nor an error event.
C22_OrderUpdateIffDataContent ==
    [][TextHandled("object") =>
          /\ (EventsOf(events', "on_order_update") # {})
                <=> (payload'.type = "order" /\ payload'.data = "content")
          /\ Cardinality(EventsOf(events', "on_order_update")) <= 1
          /\ \A i \in EventsOf(events', "on_order_update") : events'[i].data = payload'.data
          /\ payload'.type \notin {"order", "error"} =>
                EventsOf(events', "on_order_update") \cup EventsOf(events', "on_error") = {}]_vars

C22_Witness ==
    /\ last = "message"
    /\ payload.type = "order"
    /\ payload.data = "content"
    /\ events = <<Ev("on_message", 0), EvData("on_order_update", 0, "content")>>

C22_WitnessEmpty ==
    /\ last = "message"
    /\ payload.type = "order"
    /\ payload.data = "empty"
    /\ events = <<Ev("on_message", 0)>>

\* C23: an inbound text message whose JSON object has type "error" emits
\* exactly one error event with code 0 and the message's data as reason, and
\* neither closes the connection nor starts a reconnect; the error event of
\* a connection that was lost never has code 0.
C23_ErrorMessageCodeZero ==
    [][/\ (TextHandled("object") /\ payload'.type = "error") =>
              /\ ~raised'
              /\ Cardinality(EventsOf(events', "on_error")) = 1
              /\ \A i \in EventsOf(events', "on_error") :
                    events'[i] = EvData("on_error", 0, payload'.data)
              /\ sent' = <<>>
              /\ EventsOf(events', "on_close") \cup EventsOf(events', "on_reconnect") = {}
              /\ UNCHANGED ConnectionAndRegistry
       /\ last' = "connection_lost" =>
              \A i \in EventsOf(events', "on_error") : events'[i].arg # 0]_vars

C23_Witness ==
    /\ last = "message"
    /\ payload.type = "error"
    /\ proto = "open"
    /\ events = <<Ev("on_message", 0), EvData("on_error", 0, "content")>>

C23_WitnessTransport ==
    /\ last = "connection_lost"
    /\ EventsOf(events, "on_error") # {}

\* ------------------------------------------------ the decoder's claims
\* _parse_binary has been applied to the payload
Decoded == last = "parse_binary"

\* the payload is as the server framed it: the count is the number of its
\* packets and no byte is lost
WellFormed == payload.missing = 0 /\ payload.cut = 0

Supported(packet) == Len(packet) \in SupportedLengths

\* the packets of the payload that have a supported length, in wire order
Kept == SelectSeq(payload.packets, Supported)

\* the 32-bit field of a packet at a byte offset
FieldAt(packet, offset) == BigEndian(SubSeq(packet, offset + 1, offset + 4))

\* tick i is the tick of the i-th packet of supported length
TickOfKept(i) ==
    /\ ticks[i].instrument_token = FieldAt(Kept[i], 0)
    /\ ticks[i].mode = CASE Len(Kept[i]) = 8 -> "ltp"
                         [] Len(Kept[i]) \in {28, 44} -> "quote"
                         [] Len(Kept[i]) \in {32, 184} -> "full"

OneTickPerKept ==
    /\ ~raised
    /\ Len(ticks) = Len(Kept)
    /\ \A i \in DOMAIN ticks : TickOfKept(i)

NoShortPacket == \A i \in DOMAIN payload.packets : Len(payload.packets[i]) >= 4

\* C24: a heartbeat or empty binary frame (length 0 or 1) decodes to an
\* empty tick list and raises no error.
C24_HeartbeatDecodesToNothing ==
    (Decoded /\ Len(payload.bytes) < 2) => (~raised /\ ticks = <<>>)

C24_Witness == Decoded /\ Len(payload.bytes) = 1 /\ ticks = <<>>

C24_WitnessEmpty == Decoded /\ payload.bytes = <<>> /\ ticks = <<>>

\* C25: a well-formed binary frame of N packets yields one tick per packet
\* of supported length, in wire order, with the mode determined by the
\* packet's length: 8 LTP, 28 and 44 QUOTE, 32 and 184 FULL.
C25_OneTickPerSupportedPacket ==
    (Decoded /\ WellFormed) => OneTickPerKept

\* C25 for the frames none of whose packets is shorter than 4 bytes
C25_OneTickPerSupportedPacketUnlessShort ==
    (Decoded /\ WellFormed /\ NoShortPacket) => OneTickPerKept

C25_WitnessLtpThenQuote ==
    /\ Decoded
    /\ WellFormed
    /\ Len(payload.packets) = 2
    /\ Len(payload.packets[1]) = 8
    /\ Len(payload.packets[2]) = 44
    /\ Len(ticks) = 2
    /\ ticks[1].mode = "ltp"
    /\ ticks[2].mode = "quote"

\* C26: a packet whose length is not 8, 28, 32, 44 or 184 (0 to 3 bytes
\* included) is skipped without an error, and the supported packets before
\* and after it in the frame are still decoded.
C26_UnsupportedLengthSkipped ==
    (Decoded /\ WellFormed /\ Len(Kept) < Len(payload.packets)) => OneTickPerKept

\* C26 for the frames none of whose packets is shorter than 4 bytes
C26_UnsupportedLengthSkippedUnlessShort ==
    (Decoded /\ WellFormed /\ NoShortPacket /\ Len(Kept) < Len(payload.packets))
        => OneTickPerKept

C26_WitnessSkipped ==
    /\ Decoded
    /\ WellFormed
    /\ Len(payload.packets) = 2
    /\ Len(payload.packets[1]) = 12
    /\ Len(payload.packets[2]) = 8
    /\ ~raised
    /\ Len(ticks) = 1

C26_WitnessShortRaises ==
    /\ Decoded
    /\ WellFormed
    /\ Len(payload.packets) = 2
    /\ Len(payload.packets[1]) = 8
    /\ Len(payload.packets[2]) = 3
    /\ raised
    /\ ticks = <<>>

\* the packets of the payload that lie within its bytes, in wire order
RECURSIVE CompleteFrom(_, _)
CompleteFrom(i, offset) ==
    IF i > Len(payload.packets) \/ offset + 2 + Len(payload.packets[i]) > Len(payload.bytes)
    THEN <<>>
    ELSE <<payload.packets[i]>> \o CompleteFrom(i + 1, offset + 2 + Len(payload.packets[i]))

KeptComplete == SelectSeq(CompleteFrom(1, 2), Supported)

\* C27: a truncated frame (the packet count or a declared length reads past
\* the end of the frame) raises no error; the packet that would read past
\* the end is dropped and the ticks of the complete packets are returned.
C27_TruncatedFrameKeepsCompletePackets ==
    (Decoded /\ ~WellFormed) =>
        /\ ~raised
        /\ Len(ticks) = Len(KeptComplete)
        /\ \A i \in DOMAIN ticks :
              ticks[i].instrument_token = FieldAt(KeptComplete[i], 0)

C27_WitnessCountRaises ==
    /\ Decoded
    /\ payload.missing = 1
    /\ Len(payload.packets) = 1
    /\ Len(payload.packets[1]) = 8
    /\ raised
    /\ ticks = <<>>

C27_WitnessShorterPacketDecoded ==
    /\ Decoded
    /\ payload.cut = 16
    /\ Len(payload.packets) = 1
    /\ Len(payload.packets[1]) = 44
    /\ ~raised
    /\ Len(ticks) = 1

\* the price fields of a tick
PricesOf(tick) ==
    {tick.last_price}
    \cup (IF "ohlc" \in DOMAIN tick
          THEN {tick.ohlc.open, tick.ohlc.high, tick.ohlc.low, tick.ohlc.close} ELSE {})
    \cup (IF "average_traded_price" \in DOMAIN tick THEN {tick.average_traded_price} ELSE {})
    \cup (IF "depth" \in DOMAIN tick
          THEN {tick.depth.buy[i].price : i \in 1..5} \cup {tick.depth.sell[i].price : i \in 1..5}
          ELSE {})

\* the raw values the server put into the price fields of a tick
RawPricesSent(tick) ==
    /\ tick.last_price.num = Raw.last_price
    /\ "ohlc" \in DOMAIN tick =>
          /\ tick.ohlc.open.num = Raw.open
          /\ tick.ohlc.high.num = Raw.high
          /\ tick.ohlc.low.num = Raw.low
          /\ tick.ohlc.close.num \in Closes
    /\ "average_traded_price" \in DOMAIN tick =>
          tick.average_traded_price.num = Raw.average_traded_price
    /\ "depth" \in DOMAIN tick =>
          \A i \in 1..5 : /\ tick.depth.buy[i].price.num = RawDepth(i).price
                          /\ tick.depth.sell[i].price.num = RawDepth(i + 5).price

\* C28: the price divisor depends only on the low byte of the instrument
\* token: 10,000,000 when it is 3, 10,000 when it is 6, 100 otherwise; every
\* price field of a tick (last price, average price, OHLC, depth prices) is
\* the raw unsigned integer divided by that divisor.
C28_PricesDividedBySegmentDivisor ==
    Decoded =>
        \A i \in DOMAIN ticks :
            /\ \A price \in PricesOf(ticks[i]) :
                  price.den = CASE ticks[i].instrument_token % 256 = 3 -> 10000000
                                [] ticks[i].instrument_token % 256 = 6 -> 10000
                                [] OTHER -> 100
            /\ (WellFormed /\ NoShortPacket) =>
                  /\ RawPricesSent(ticks[i])
                  /\ ticks[i].last_price.num = FieldAt(Kept[i], 4)

C28_WitnessCDS ==
    /\ Decoded
    /\ Len(ticks) = 1
    /\ ticks[1].instrument_token = 259
    /\ "depth" \in DOMAIN ticks[1]
    /\ ticks[1].depth.sell[5].price = [num |-> RawDepth(10).price, den |-> 10000000]

C28_WitnessBCD ==
    /\ Decoded
    /\ Len(ticks) = 1
    /\ ticks[1].instrument_token = 262
    /\ ticks[1].last_price = [num |-> Raw.last_price, den |-> 10000]

C28_WitnessLowByteOnly ==
    /\ Decoded
    /\ Len(ticks) = 1
    /\ ticks[1].instrument_token = 769
    /\ "average_traded_price" \in DOMAIN ticks[1]
    /\ ticks[1].average_traded_price = [num |-> Raw.average_traded_price, den |-> 100]

\* C29: for the ticks of the quote and full layouts (28, 32, 44 and 184
\* bytes), change = (lastPrice - close) * 100 / close when close is not 0,
\* and 0 when it is 0.  Fractions are compared by cross-multiplication;
\* lastPrice and close have the same divisor.
C29_ChangeIsPercentOfClose ==
    Decoded =>
        \A i \in DOMAIN ticks :
            "ohlc" \in DOMAIN ticks[i] =>
                LET tick == ticks[i] IN
                /\ "change" \in DOMAIN tick
                /\ tick.change.den # 0
                /\ tick.last_price.den = tick.ohlc.close.den
                /\ IF tick.ohlc.close.num # 0
                   THEN tick.change.num * tick.ohlc.close.num =
                            (tick.last_price.num - tick.ohlc.close.num) * 100 * tick.change.den
                   ELSE tick.change.num = 0

C29_WitnessChange ==
    /\ Decoded
    /\ Len(ticks) = 1
    /\ ticks[1].mode = "quote"
    /\ ticks[1].ohlc.close.num = 15010
    /\ ticks[1].change = [num |-> 1500, den |-> 15010]

C29_WitnessZeroClose ==
    /\ Decoded
    /\ Len(ticks) = 1
    /\ ticks[1].mode = "full"
    /\ ticks[1].ohlc.close.num = 0
    /\ ticks[1].change.num = 0

\* what a timestamp field holds for the epoch of the wire
TimestampOf(epoch) ==
    IF ConversionFails(epoch, localtime_strict) THEN None ELSE <<epoch>>

\* C30: a timestamp field (exchange_timestamp of the packets of 32 and 184
\* bytes, last_trade_time of those of 184) whose epoch fails to convert is
\* recorded as absent and does not make the decoder raise; the other fields
\* of the tick are still decoded.  An epoch that converts is recorded.
C30_FailedTimestampIsAbsent ==
    (Decoded /\ WellFormed /\ NoShortPacket) =>
        /\ ~raised
        /\ Len(ticks) = Len(Kept)
        /\ \A i \in DOMAIN ticks :
              LET tick == ticks[i]
                  packet == Kept[i]
              IN  /\ ("exchange_timestamp" \in DOMAIN tick) <=> (Len(packet) \in {32, 184})
                  /\ ("last_trade_time" \in DOMAIN tick) <=> (Len(packet) = 184)
                  /\ Len(packet) = 32 =>
                        tick.exchange_timestamp = TimestampOf(FieldAt(packet, 28))
                  /\ Len(packet) = 184 =>
                        /\ tick.exchange_timestamp = TimestampOf(FieldAt(packet, 60))
                        /\ tick.last_trade_time = TimestampOf(FieldAt(packet, 44))
                        /\ tick.oi = Raw.oi
                        /\ tick.oi_day_high = Raw.oi_day_high
                        /\ tick.oi_day_low = Raw.oi_day_low
                        /\ tick.volume_traded = Raw.volume_traded
                        /\ \A k \in 1..5 : tick.depth.buy[k].quantity = RawDepth(k).quantity
                  /\ TickOfKept(i)
                  /\ RawPricesSent(tick)

C30_WitnessAbsent ==
    /\ Decoded
    /\ ~raised
    /\ Len(ticks) = 1
    /\ ticks[1].mode = "full"
    /\ "last_trade_time" \in DOMAIN ticks[1]
    /\ ticks[1].exchange_timestamp = None
    /\ ticks[1].last_trade_time = <<1700000000>>
    /\ ticks[1].oi = Raw.oi
    /\ ticks[1].last_price.num = Raw.last_price

C30_WitnessZeroConverted ==
    /\ Decoded
    /\ ~localtime_strict
    /\ Len(ticks) = 1
    /\ Len(payload.packets[1]) = 32
    /\ ticks[1].exchange_timestamp = <<0>>

C31_ReplayFailedAtFirstSend ==
    /\ last = "replay_step"
    /\ raised
    /\ replayFrom # <<>>
    /\ subscribed_tokens = replayFrom

\* a replay that fails at a set-mode has left its tokens at quote
C31_ReplayFailedAtSetMode ==
    /\ last = "replay_step"
    /\ raised
    /\ replayFrom = <<Entry(1, "full")>>
    /\ subscribed_tokens = <<Entry(1, "quote")>>

\* the control command of a registry call with these arguments
CommandOf(name, a) ==
    CASE name = "subscribe"   -> Cmd("subscribe", "", a.v)
      [] name = "unsubscribe" -> Cmd("unsubscribe", "", a.v)
      [] name = "set_mode"    -> Cmd("mode", a.mode, a.v)

\* C32: a subscribe, unsubscribe or set_mode call that raises leaves the
\* registry exactly as it was and has handed nothing to the socket; a call
\* that does not raise (it returns True) has handed exactly its control
\* command to the socket; the registry changes only in a call that did.
C32_FailedCallKeepsRegistry ==
    [][last' \in ApiNames =>
          /\ raised' => (subscribed_tokens' = subscribed_tokens /\ sent' = <<>>)
          /\ ~raised' => sent' = <<CommandOf(last', args')>>
          /\ subscribed_tokens' # subscribed_tokens => (~raised' /\ sent' # <<>>)
          /\ raised' <=> ~CanSend]_vars

C32_Witness ==
    /\ last = "subscribe"
    /\ raised
    /\ args.v # <<>>
    /\ subscribed_tokens # <<>>
    /\ \E i \in DOMAIN args.v : ~Has(subscribed_tokens, args.v[i])

C32_WitnessSent ==
    /\ last = "set_mode"
    /\ ~raised
    /\ sent = <<Cmd("mode", "full", <<1>>)>>
    /\ subscribed_tokens = <<Entry(1, "full")>>

\* the handler that has just run was told that a connection or attempt ended
EndHandled == last' \in {"connection_failed", "connection_lost"}

\* C33: a reconnect-attempt notification (on_reconnect) is emitted only when
\* an automatic reconnect attempt follows it: the step that emits it leaves
\* a retry scheduled, emits no on_noreconnect, and close() has not stopped
\* the retrying.
C33_ReconnectAnnouncedOnlyIfRetrying ==
    [][(EndHandled /\ EventsOf(events', "on_reconnect") # {}) =>
          /\ factory'.callID
          /\ factory'.continueTrying
          /\ EventsOf(events', "on_noreconnect") = {}]_vars

\* on_reconnect on the failure that exhausts the retry limit
C33_AnnouncedOnExhaustion ==
    /\ last = "connection_failed"
    /\ EventsOf(events, "on_reconnect") # {}
    /\ EventsOf(events, "on_noreconnect") # {}
    /\ ~factory.callID

\* on_reconnect after close() has stopped the retrying
C33_AnnouncedAfterClose ==
    /\ last = "connection_failed"
    /\ closeRequested
    /\ ~factory.continueTrying
    /\ EventsOf(events, "on_reconnect") # {}
    /\ ~factory.callID

\* the client has given up: no attempt is under way, none is scheduled
GivenUp == Exhausted /\ connector = "disconnected" /\ ~factory.callID

\* C34: if every connection attempt fails, then for every configuration the
\* client eventually reaches the terminal disconnected state with
\* on_noreconnect fired; it never retries forever.
C34_EventuallyGivesUpAndTells ==
    (last = "connect") ~> (GivenUp /\ noreconnects = 1)

\* C34, the part that holds for every configuration: the retrying ends
C34_EventuallyGivesUp ==
    (last = "connect") ~> GivenUp

\* C34 as stated, for the clients without debug logging
C34_EventuallyTellsUnlessDebug ==
    (last = "connect" /\ ~debug) ~> (GivenUp /\ noreconnects = 1)

\* a connection closed: onClose and clientConnectionLost have run
CloseHandled == last' = "connection_lost"

\* C35, the order of the events of one close: one on_close; an on_error if
\* and only if the close was not clean, and before on_close; both before the
\* reconnect decision
CloseEventsInOrder(evs, unclean) ==
    /\ Cardinality(EventsOf(evs, "on_close")) = 1
    /\ (EventsOf(evs, "on_error") # {}) <=> unclean
    /\ \A i \in EventsOf(evs, "on_error") : \A j \in EventsOf(evs, "on_close") : i < j
    /\ \A i \in EventsOf(evs, "on_error") \cup EventsOf(evs, "on_close") :
          \A j \in EventsOf(evs, "on_reconnect") \cup EventsOf(evs, "on_noreconnect") : i < j

\* C35: for every connection that closes, on_close is emitted exactly once;
\* an error event is emitted if and only if the close was not clean, and
\* then before the close event; both are emitted before the reconnect
\* decision (on_reconnect / on_noreconnect) for that loss.
C35_CloseEventsOnceInOrder ==
    [][CloseHandled => CloseEventsInOrder(events', args'.mode = "unclean")]_vars

\* C35 for the closes whose on_error callback returns
C35_CloseEventsInOrderIfErrorReturns ==
    [][(CloseHandled /\ (raised' => EventsOf(events', "on_close") # {})) =>
          CloseEventsInOrder(events', args'.mode = "unclean")]_vars

\* C35: an unclean close whose on_error callback raised: no on_close
C35_CloseNeverAnnounced ==
    /\ last = "connection_lost"
    /\ args.mode = "unclean"
    /\ raised
    /\ events = <<Ev("on_error", CLOSE_STATUS_CODE_ABNORMAL_CLOSE)>>

\* C35: an unclean close announced in order, the retry decision last
C35_CloseAnnouncedInOrder ==
    /\ last = "connection_lost"
    /\ args.mode = "unclean"
    /\ ~raised
    /\ Len(events) = 4
    /\ events[1].cb = "on_error"
    /\ events[2].cb = "on_close"
    /\ events[3].cb = "on_reconnect"
    /\ events[4].cb = "on_noreconnect"

\* _on_open has ended in this step, by returning or by raising
OpenHandled ==
    /\ last' \in {"open", "replay_step"}
    /\ replayTodo' = <<>>

C36_OpenAnnouncedAfterReplayThatSucceeds ==
    [][/\ (OpenHandled /\ ~raised') => Cardinality(EventsOf(events', "on_open")) = 1
       /\ (last' \in {"open", "replay_step"} /\ ~OpenHandled) => EventsOf(events', "on_open") = {}
       /\ (last' = "replay_step" /\ EventsOf(events', "on_open") # {}) =>
             (Tail(replayTodo) = <<>> /\ sent' = <<Head(replayTodo)>>)
       /\ (last' = "replay_step") => (next_ping /\ next_pong_check)]_vars

\* C36: the replay failed, the connection is Open or closing, and on_open
\* was never invoked for it
C36_OpenNeverAnnounced ==
    /\ last = "replay_step"
    /\ raised
    /\ replayTodo = <<>>
    /\ events = <<>>
    /\ proto = "closing"

\* C36: on_open after the last command of a replay
C36_OpenAnnouncedAfterReplay ==
    /\ last = "replay_step"
    /\ ~raised
    /\ events = <<Ev("on_open", 0)>>
    /\ sent # <<>>
    /\ sent[1].a = "mode"

\* what clientConnectionFailed does on the failure that exhausts the retries
\* of a client built with debug=False: it returns, on_noreconnect invoked
AnnouncesExhaustion ==
    (last' = "connection_failed" /\ Exhausted') =>
        /\ ~raised'
        /\ Cardinality(EventsOf(events', "on_noreconnect")) = 1
        /\ noreconnects' = 1

\* C37: the debug flag only adds logging: the same callbacks are invoked and
\* the same states are reached with debug=True as with debug=False; in
\* particular on_noreconnect is invoked on retry exhaustion in both.
C37_DebugOnlyLogs ==
    [][AnnouncesExhaustion]_vars

\* C37: what the clients built with debug=False do
C37_WithoutDebug ==
    [][~debug => AnnouncesExhaustion]_vars

\* C37: the retries of a client built with debug=True are exhausted: the
\* handler raised and on_noreconnect was not invoked
C37_DebugSkipsNoreconnect ==
    /\ debug
    /\ last = "connection_failed"
    /\ Exhausted
    /\ raised
    /\ EventsOf(events, "on_noreconnect") = {}
    /\ noreconnects = 0

\* C37: the same failure on a client built with debug=False
C37_NoDebugAnnounces ==
    /\ ~debug
    /\ last = "connection_failed"
    /\ Exhausted
    /\ ~raised
    /\ EventsOf(events, "on_noreconnect") # {}

\* an inbound text message has been handled
AnyTextHandled == last' = "message" /\ ~payload'.binary

\* C38: the text dispatcher never raises, for any inbound text: valid JSON
\* that is not an object (a number, a string, a list, null) and an object
\* without a type field are discarded without error and without an
\* order-update or error event.
C38_TextNeverRaises ==
    [][AnyTextHandled =>
          /\ ~raised'
          /\ (payload'.json = "value" \/ (payload'.json = "object" /\ payload'.type = "absent")) =>
                events' = <<Ev("on_message", 0)>>]_vars

\* C38 for the texts that are not valid JSON or decode to an object
C38_ObjectsNeverRaise ==
    [][(AnyTextHandled /\ payload'.json # "value") =>
          /\ ~raised'
          /\ (payload'.json = "object" /\ payload'.type = "absent") =>
                events' = <<Ev("on_message", 0)>>]_vars

\* C38: a text that decodes to a JSON value that is not an object raised
C38_ValueRaised ==
    /\ last = "message"
    /\ ~payload.binary
    /\ payload.json = "value"
    /\ raised
    /\ events = <<Ev("on_message", 0)>>

\* C38: an object without a type field was discarded
C38_UntypedObjectDiscarded ==
    /\ last = "message"
    /\ ~payload.binary
    /\ payload.json = "object"
    /\ payload.type = "absent"
    /\ payload.data = "content"
    /\ ~raised
    /\ events = <<Ev("on_message", 0)>>

\* an inbound frame has been handled
FrameHandled == last' = "message"

\* C39: a ticks event is emitted if and only if the frame is binary and
\* longer than 4 bytes; a text frame never emits a ticks event; a binary
\* frame never emits an order-update or error event; the raw-message event
\* is emitted for every frame, before any event derived from it.
C39_Routing ==
    [][FrameHandled =>
          /\ (EventsOf(events', "on_ticks") # {}) <=>
                (payload'.binary /\ Len(payload'.bytes) > 4)
          /\ payload'.binary =>
                (EventsOf(events', "on_order_update") = {} /\ EventsOf(events', "on_error") = {})
          /\ EventsOf(events', "on_message") = {1}]_vars

\* C39 for the frames whose decoding returns
C39_RoutingOfDecodedFrames ==
    [][(FrameHandled /\ ~(payload'.binary /\ raised')) =>
          /\ (EventsOf(events', "on_ticks") # {}) <=>
                (payload'.binary /\ Len(payload'.bytes) > 4)
          /\ payload'.binary =>
                (EventsOf(events', "on_order_update") = {} /\ EventsOf(events', "on_error") = {})
          /\ EventsOf(events', "on_message") = {1}]_vars

\* C39: a binary frame longer than 4 bytes, and no ticks event
C39_LongBinaryWithoutTicks ==
    /\ last = "message"
    /\ payload.binary
    /\ Len(payload.bytes) > 4
    /\ raised
    /\ events = <<Ev("on_message", 0)>>

\* C39: a binary frame routed to the decoder, its ticks handed to on_ticks
C39_BinaryRouted ==
    /\ last = "message"
    /\ payload.binary
    /\ Len(payload.bytes) > 4
    /\ ~raised
    /\ Len(events) = 2
    /\ events[1].cb = "on_message"
    /\ events[2].cb = "on_ticks"
    /\ Len(ticks) = 1

\* C39: the one-byte heartbeat is not routed
C39_HeartbeatNotRouted ==
    /\ last = "message"
    /\ payload.binary
    /\ Len(payload.bytes) = 1
    /\ ~raised
    /\ events = <<Ev("on_message", 0)>>

============================================================================
